---- MODULE Spec2Model ----
(***************************************************************************)
(* Model of the Ornithe server installer, src/src/actions/server.rs:       *)
(* install / install_path / create_launch_jar / read_jar_main_class /      *)
(* download_library / split_artifact / install_and_run.                    *)
(*                                                                         *)
(* Strings the code computes with (coordinates, URLs, paths, the           *)
(* Class-Path line) are sequences of one-character strings, so that        *)
(* splitn, replace, matches, join, strip_prefix and trim_end are computed  *)
(* as the code computes them.  Strings the code only copies (class names,  *)
(* error messages) are TLA+ strings.                                       *)
(***************************************************************************)
EXTENDS Integers, Sequences, FiniteSets, TLC

\* Largest number of entries in the manifest's "libraries" array.
MaxLibs == 2

\* Option values: None and Some(x).
None == [some |-> FALSE]

Some(x) == [some |-> TRUE, val |-> x]

\* What a panicking unwrap() yields instead of a string (split_artifact,
\* lines 256-258): a sequence that is no sequence of characters.
Panic == <<"panic">>

(***************************************************************************)
(* String literals of the source, as character sequences.                  *)
(***************************************************************************)
\* "net\\.fabricmc:fabric-loader:.*" (line 119): the Rust literal holds a
\* backslash; str::matches with a &str pattern searches for it literally.
FabricLoaderPattern == <<"n","e","t","\\",".","f","a","b","r","i","c","m","c",":","f","a","b","r","i","c","-","l","o","a","d","e","r",":",".","*">>

DotFabric == <<".","f","a","b","r","i","c">>
DotQuilt == <<".","q","u","i","l","t">>
LibrariesName == <<"l","i","b","r","a","r","i","e","s">>
ServerLaunchSuffix == <<"-","s","e","r","v","e","r","-","l","a","u","n","c","h",".","j","a","r">>
ServerJarName == <<"s","e","r","v","e","r",".","j","a","r">>
DotJar == <<".","j","a","r">>

\* "net.fabricmc.loader.launch.server.FabricServerLauncher" (line 92)
DefaultFabricLauncher == "net.fabricmc.loader.launch.server.FabricServerLauncher"

(***************************************************************************)
(* Inputs: the values the environment supplies.                            *)
(***************************************************************************)
\* The location argument (a relative directory "srv").
Location == <<"s","r","v">>

\* "net.fabricmc:fabric-loader:0.14.0": the coordinate of a real Fabric loader.
FabricLoaderName == <<"n","e","t",".","f","a","b","r","i","c","m","c",":","f","a","b","r","i","c","-","l","o","a","d","e","r",":","0",".","1","4",".","0">>
\* A coordinate that contains the text of FabricLoaderPattern itself.
PatternName == FabricLoaderPattern
\* "a:b": a coordinate with two segments only.
TwoSegName == <<"a",":","b">>

LibraryNames == {FabricLoaderName, PatternName, TwoSegName}

\* "https://maven.fabricmc.net/"
MavenUrl == <<"h","t","t","p","s",":","/","/","m","a","v","e","n",".","f","a","b","r","i","c","m","c",".","n","e","t","/">>

\* The Main-Class a current Fabric loader jar declares in its own manifest.
JarMainClass == "net.fabricmc.loader.impl.launch.server.FabricServerLauncher"

(***************************************************************************)
(* std string and path functions.                                          *)
(***************************************************************************)
\* str::starts_with
StartsWith(s, p) ==
    Len(p) <= Len(s) /\ SubSeq(s, 1, Len(p)) = p

\* s.matches(p).count() > 0 for a &str pattern p: p occurs in s literally.
Matches(s, p) ==
    \E i \in 1..(Len(s) - Len(p) + 1) : SubSeq(s, i, i + Len(p) - 1) = p

\* str::replace for one-character patterns.
Replace(s, from, to) ==
    [i \in 1..Len(s) |-> IF s[i] = from THEN to ELSE s[i]]

\* Index of the first occurrence of character c in s, 0 when there is none.
IndexOf(s, c) ==
    IF \E i \in 1..Len(s) : s[i] = c
    THEN CHOOSE i \in 1..Len(s) : s[i] = c /\ \A j \in 1..(i - 1) : s[j] # c
    ELSE 0

\* str::splitn(n, c): at most n parts, the last one holding the rest.
RECURSIVE splitn(_, _, _)
splitn(n, s, c) ==
    IF n <= 1 \/ IndexOf(s, c) = 0
    THEN <<s>>
    ELSE <<SubSeq(s, 1, IndexOf(s, c) - 1)>>
             \o splitn(n - 1, SubSeq(s, IndexOf(s, c) + 1, Len(s)), c)

\* str::trim_end for the space character.
RECURSIVE trim_end(_)
trim_end(s) ==
    IF s # <<>> /\ s[Len(s)] = " " THEN trim_end(SubSeq(s, 1, Len(s) - 1)) ELSE s

\* PathBuf::join: an absolute argument replaces the base.
PathJoin(base, p) ==
    IF p # <<>> /\ p[1] = "/" THEN p ELSE base \o <<"/">> \o p

\* Path::strip_prefix: the rest of path below base, or an error.
StripPrefixError == <<"StripPrefixError">>
strip_prefix(path, base) ==
    IF path = base THEN <<>>
    ELSE IF StartsWith(path, base \o <<"/">>)
         THEN SubSeq(path, Len(base) + 2, Len(path))
         ELSE StripPrefixError

\* Whether path q lies in the directory tree rooted at p (p itself included).
Under(q, p) ==
    q = p \/ StartsWith(q, p \o <<"/">>)

\* The directories above path p, as create_dir_all makes them.
Parents(p) ==
    {SubSeq(p, 1, i - 1) : i \in {j \in 2..Len(p) : p[j] = "/"}}

(***************************************************************************)
(* split_artifact, lines 254-261.                                          *)
(***************************************************************************)
split_artifact_keeps_dots(artifact) ==
    LET parts == splitn(3, artifact, ":") IN
    IF Len(parts) < 3 THEN Panic
    ELSE parts[1] \o <<"/">> \o parts[2] \o <<"/">> \o parts[3] \o <<"/">>
            \o parts[2] \o <<"-">> \o parts[3] \o DotJar

split_artifact_file_name_only(artifact) ==
    LET parts == splitn(3, artifact, ":") IN
    IF Len(parts) < 3 THEN Panic
    ELSE parts[2] \o DotJar

split_artifact(artifact) ==
    LET parts == splitn(3, artifact, ":") IN
    IF Len(parts) < 3 THEN Panic
    ELSE LET group == Replace(parts[1], ".", "/")
             name == parts[2]
             version == parts[3]
         IN group \o <<"/">> \o name \o <<"/">> \o version \o <<"/">>
               \o name \o <<"-">> \o version \o DotJar


(***************************************************************************)
(* serde_json values.  Indexing an absent field yields Null; as_str and    *)
(* as_array of a value of another type are None.                           *)
(***************************************************************************)
JNull == [type |-> "null"]

JStr(s) == [type |-> "string", s |-> s]

JArr(a) == [type |-> "array", a |-> a]

as_str(v) == IF v.type = "string" THEN Some(v.s) ELSE None

as_array(v) == IF v.type = "array" THEN Some(v.a) ELSE None

is_object_anything(v) == TRUE

is_object(v) == v.type = "object"

\* v[key]: Null unless v is an object that holds the key.
Get(v, key) ==
    IF v.type = "object" /\ key \in DOMAIN v THEN v[key] ELSE JNull

\* The entries a manifest's "libraries" array may hold.
LibraryEntries ==
    {[type |-> "object", name |-> JStr(n), url |-> JStr(MavenUrl)] : n \in LibraryNames}
        \cup {[type |-> "object", url |-> JStr(MavenUrl)],
              [type |-> "object", name |-> JStr(FabricLoaderName)]}

LibraryLists == UNION {[1..k -> LibraryEntries] : k \in 0..MaxLibs}

\* The mod-side main class of a Fabric manifest, the launcher of a Quilt one.
KnotServer == "net.fabricmc.loader.impl.launch.knot.KnotServer"
QuiltLauncher == "org.quiltmc.loader.impl.launch.server.QuiltServerLauncher"

\* The main-class fields a manifest object may hold: none, mainClass alone,
\* or launcherMainClass alone.
MainClassFields ==
    {[mainClass |-> JNull, launcherMainClass |-> JNull],
     [mainClass |-> JStr(KnotServer), launcherMainClass |-> JNull],
     [mainClass |-> JNull, launcherMainClass |-> JStr(QuiltLauncher)]}

\* What fetch_launch_json may deliver: text that is no JSON, a JSON array,
\* or an object with or without a main-class field and a libraries array.
Docs ==
    {[type |-> "invalid"], JArr(<<>>)}
        \cup {[type |-> "object",
               mainClass |-> f.mainClass,
               launcherMainClass |-> f.launcherMainClass,
               libraries |-> l] :
                 f \in MainClassFields,
                 l \in {JNull} \cup {JArr(a) : a \in LibraryLists}}

(***************************************************************************)
(* The file system: a function from the paths that exist to their content. *)
(***************************************************************************)
Dir == [kind |-> "dir"]

\* A file that is no complete zip archive (truncated download or write).
Partial == [kind |-> "partial"]

Jar(manifest, properties) ==
    [kind |-> "jar", manifest |-> manifest, properties |-> properties]

\* std::fs::exists(..).unwrap_or_default()
Exists(d, p) == p \in DOMAIN d

WriteFile(d, p, c) ==
    [q \in DOMAIN d \cup Parents(p) \cup {p} |->
        IF q = p THEN c ELSE IF q \in DOMAIN d THEN d[q] ELSE Dir]

RemoveAll_not_recursive(d, ps) ==
    [q \in {r \in DOMAIN d : r \notin ps} |-> d[q]]

\* std::fs::remove_dir_all / remove_file
RemoveAll(d, ps) ==
    [q \in {r \in DOMAIN d : \A p \in ps : ~Under(r, p)} |-> d[q]]

\* std::fs::create_dir_all
CreateDirAll(d, p) ==
    [q \in DOMAIN d \cup Parents(p) \cup {p} |-> IF q \in DOMAIN d THEN d[q] ELSE Dir]

ManifestVersionLine == <<"Manifest-Version", "1.0">>

\* The jar a URL serves; its manifest may lack a Main-Class line.
RemoteJar(url, hasMain) ==
    [kind |-> "jar", url |-> url, properties |-> None,
     manifest |-> IF hasMain
                  THEN <<ManifestVersionLine, <<"Main-Class", JarMainClass>>>>
                  ELSE <<ManifestVersionLine>>]

\* crate::net::download_file(url, path): creates the parent directories and
\* overwrites path; on a failure it leaves the file system alone ("err") or
\* leaves a truncated file behind ("partial").
DownloadOutcomes == {"ok", "err", "partial"}

\* What a download may find the repository's jars to be, given what earlier
\* downloads of this run found.
Observed(known) == IF known.some THEN {known.val} ELSE BOOLEAN

download_file(d, url, path, hasMain, outcome) ==
    IF outcome = "ok" THEN WriteFile(d, path, RemoteJar(url, hasMain))
    ELSE IF outcome = "partial" THEN WriteFile(d, path, Partial)
    ELSE d

\* A launcher archive left by an earlier installation.
OldArchive ==
    Jar(<<ManifestVersionLine, <<"Main-Class", "old.Launcher">>, <<"Class-Path", <<>>>>>>, None)

\* LoaderType::get_name
get_name(loader) == IF loader = "Fabric" THEN <<"f","a","b","r","i","c">> ELSE <<"q","u","i","l","t">>

\* location.join(loader_type.get_name().to_owned() + "-server-launch.jar")
LaunchJar(loader) == PathJoin(Location, get_name(loader) \o ServerLaunchSuffix)

\* [location.join(".fabric"), location.join(".quilt")], line 58
clear_paths == <<PathJoin(Location, DotFabric), PathJoin(Location, DotQuilt)>>

\* location.join("libraries").join(split_artifact(name)), lines 122 and 247
LibraryFile(name) ==
    PathJoin(PathJoin(Location, LibrariesName), split_artifact(name))

\* The file systems an invocation may find: no target directory, or one
\* holding stale .fabric and .quilt directories and an old server.jar.
EmptyDisk == [q \in {} |-> Dir]

\* A server.jar left by an earlier installation.
OldServerJar == Jar(<<ManifestVersionLine>>, None)

InitialDisks ==
    LET target == CreateDirAll(EmptyDisk, Location)
        stale == WriteFile(CreateDirAll(target, clear_paths[2]),
                           PathJoin(clear_paths[1], <<"x">>), Partial)
    IN {EmptyDisk, WriteFile(stale, PathJoin(Location, ServerJarName), OldServerJar)}

(***************************************************************************)
(* State.                                                                  *)
(***************************************************************************)
VARIABLES
    pc,                       \* where the entry point's future stands
    entry,                    \* "install" or "install_and_run"
    loader_type,              \* "Fabric" or "Quilt"
    install_server,           \* install_path's install_server argument
    remoteHasMain,            \* whether the jars the repository serves declare a Main-Class:
                              \* None until the first download finds out
    disk,                     \* the file system
    launch_json,              \* the parsed launch manifest document
    main_class,               \* line 84
    launch_main_class,        \* line 85
    fabric_loader_artifact,   \* line 108
    library_files,            \* the JoinSet: one record per spawned task
    notified,                 \* the JoinSet's queue of finished tasks, oldest first
    dropped,                  \* whether the JoinSet has been dropped (its tasks aborted)
    downloaded_library_files, \* line 126
    install_path_result,      \* what install_path returned
    result,                   \* what the entry point returned
    processes,                \* the child processes spawned, each with its command line
    steps,                    \* history: the steps begun, in order
    created,                  \* history: the paths this invocation created or wrote
    removed,                  \* history: the paths this invocation removed
    writers,                  \* history: <<path, task>> for every file a task wrote
    disk0                     \* history: the file system when the entry point was called

vars == <<pc, entry, loader_type, install_server, remoteHasMain, disk, launch_json,
          main_class, launch_main_class, fabric_loader_artifact, library_files,
          notified, dropped, downloaded_library_files, install_path_result, result,
          processes, steps, created, removed, writers, disk0>>

Pending == "pending"

Init ==
    /\ pc = "idle"
    /\ entry \in {"install", "install_and_run"}
    /\ loader_type \in {"Fabric", "Quilt"}
    /\ install_server \in IF entry = "install" THEN BOOLEAN ELSE {FALSE}
    /\ remoteHasMain = None
    /\ \E d \in InitialDisks :
          disk \in {d} \cup IF Exists(d, Location)
                            THEN {WriteFile(d, LaunchJar(loader_type), OldArchive)}
                            ELSE {}
    /\ launch_json = JNull
    /\ main_class = ""
    /\ launch_main_class = ""
    /\ fabric_loader_artifact = None
    /\ library_files = <<>>
    /\ notified = <<>>
    /\ dropped = FALSE
    /\ downloaded_library_files = <<>>
    /\ install_path_result = Pending
    /\ result = Pending
    /\ processes = <<>>
    /\ steps = <<>>
    /\ created = {}
    /\ removed = {}
    /\ writers = {}
    /\ disk0 = disk

\* As Fail, but install_and_run goes on to launch.
Fail_then_launch(msg) ==
    /\ pc' = IF entry = "install_and_run" THEN "Launch" ELSE "Returned"
    /\ install_path_result' = msg
    /\ result' = msg
    /\ dropped' = TRUE

\* As Fail, but the JoinSet outlives the call and its tasks are not aborted.
Fail_without_drop(msg) ==
    /\ pc' = "Returned"
    /\ install_path_result' = msg
    /\ result' = msg
    /\ dropped' = dropped

\* Returning an error from install_path: `?` and `return Err(..)`.  The
\* JoinSet is dropped with the frame, which aborts its tasks; both entry
\* points pass the error on to their caller.
Fail(msg) ==
    /\ pc' = "Returned"
    /\ install_path_result' = msg
    /\ result' = msg
    /\ dropped' = TRUE

\* The history of steps: a step is recorded when the code enters it.
Begin(step) ==
    steps' = IF steps # <<>> /\ steps[Len(steps)] = step THEN steps ELSE Append(steps, step)

(***************************************************************************)
(* install, lines 16-41, and the head of install_and_run, lines 275-278.   *)
(***************************************************************************)
install ==
    /\ pc = "idle"
    /\ entry = "install"
    /\ pc' = "CleanStale"
    /\ UNCHANGED <<entry, loader_type, install_server, remoteHasMain, disk, launch_json,
                   main_class, launch_main_class, fabric_loader_artifact, library_files,
                   notified, dropped, downloaded_library_files, install_path_result, result, processes,
                   steps, created, removed, writers, disk0>>

needs_install_always(d, loader) == TRUE

\* Line 276: !std::fs::exists(&launch_jar).unwrap_or_default()
needs_install(d, loader) == ~Exists(d, LaunchJar(loader))

install_and_run ==
    /\ pc = "idle"
    /\ entry = "install_and_run"
    /\ IF needs_install(disk, loader_type)
       THEN pc' = "CleanStale" /\ install_server' = TRUE
       ELSE pc' = "Launch" /\ UNCHANGED install_server
    /\ UNCHANGED <<entry, loader_type, remoteHasMain, disk, launch_json,
                   main_class, launch_main_class, fabric_loader_artifact, library_files,
                   notified, dropped, downloaded_library_files, install_path_result, result, processes,
                   steps, created, removed, writers, disk0>>

(***************************************************************************)
(* install_path, lines 58-63: remove the stale loader directories.         *)
(* failAt = 0: every removal succeeds; failAt = k: remove_dir_all of the   *)
(* k-th path fails.                                                        *)
(***************************************************************************)
CleanStale ==
    /\ pc = "CleanStale"
    /\ \E failAt \in 0..Len(clear_paths) :
          /\ failAt # 0 => Exists(disk, clear_paths[failAt])
          /\ LET upto == IF failAt = 0 THEN Len(clear_paths) ELSE failAt - 1
                 gone == {clear_paths[k] : k \in 1..upto}
             IN /\ disk' = RemoveAll(disk, gone)
                /\ removed' = removed \cup (DOMAIN disk \ DOMAIN disk')
          /\ IF failAt = 0
             THEN pc' = "FetchManifest" /\ UNCHANGED <<result, install_path_result, dropped>>
             ELSE Fail("io error")
    /\ Begin("CleanStale")
    /\ UNCHANGED <<entry, loader_type, install_server, remoteHasMain, launch_json,
                   main_class, launch_main_class, fabric_loader_artifact, library_files,
                   notified, downloaded_library_files, processes, created, writers, disk0>>

(***************************************************************************)
(* install_path, lines 65-82: fetch and parse the launch manifest.         *)
(***************************************************************************)
WrongTypeError ==
    "Cannot create server installation due to server endpoint returning wrong type."

FetchManifest ==
    /\ pc = "FetchManifest"
    /\ \/ Fail("fetch failed") /\ UNCHANGED launch_json
       \/ \E doc \in Docs :
             IF doc.type = "invalid"
             THEN Fail("json error") /\ UNCHANGED launch_json
             ELSE IF ~is_object(doc)
             THEN /\ Fail(WrongTypeError)
                  /\ launch_json' = doc
             ELSE /\ launch_json' = doc
                  /\ pc' = "ResolveMainClass"
                  /\ UNCHANGED <<result, install_path_result, dropped>>
    /\ Begin("FetchManifest")
    /\ UNCHANGED <<entry, loader_type, install_server, remoteHasMain, disk,
                   main_class, launch_main_class, fabric_loader_artifact, library_files,
                   notified, downloaded_library_files, processes, created, removed, writers, disk0>>

(***************************************************************************)
(* install_path, lines 84-106: the main classes and the libraries array.   *)
(***************************************************************************)
main_class_key_always_mainClass(loader) == "mainClass"

\* The field the match at lines 87-100 reads.
main_class_key(loader) ==
    IF loader = "Fabric" THEN "mainClass" ELSE "launcherMainClass"

ResolveMainClass ==
    /\ pc = "ResolveMainClass"
    /\ LET needed == as_str(Get(launch_json, main_class_key(loader_type)))
           libraries == as_array(Get(launch_json, "libraries"))
       IN IF ~needed.some
          THEN Fail("Could not find main class entry")
                  /\ UNCHANGED <<main_class, launch_main_class>>
          ELSE /\ IF loader_type = "Fabric"
                  THEN /\ main_class' = needed.val
                       /\ launch_main_class' = DefaultFabricLauncher
                  ELSE /\ launch_main_class' = needed.val
                       /\ UNCHANGED main_class
               /\ IF ~libraries.some
                  THEN Fail("No libraries were specified")
                  ELSE /\ pc' = "DownloadLibraries"
                       /\ UNCHANGED <<result, install_path_result, dropped>>
    /\ Begin("ResolveMainClass")
    /\ UNCHANGED <<entry, loader_type, install_server, remoteHasMain, disk, launch_json,
                   fabric_loader_artifact, library_files, notified,
                   downloaded_library_files, processes, created, removed, writers, disk0>>

\* The manifest's libraries array (line 102), once ResolveMainClass has passed.
libraries == Get(launch_json, "libraries").a

(***************************************************************************)
(* install_path, lines 109-124: one iteration of the loop that checks an   *)
(* entry and spawns its download task, or the end of the loop.             *)
(***************************************************************************)
SpawnLibrary ==
    /\ pc = "DownloadLibraries"
    /\ IF Len(library_files) = Len(libraries)
       THEN /\ pc' = "JoinLibraries"
            /\ UNCHANGED <<result, install_path_result, dropped, fabric_loader_artifact, library_files>>
       ELSE LET library == libraries[Len(library_files) + 1]
                name == as_str(Get(library, "name"))
                url == as_str(Get(library, "url"))
            IN IF ~name.some
               THEN Fail("Library had no name!")
                       /\ UNCHANGED <<fabric_loader_artifact, library_files>>
               ELSE IF ~url.some
               THEN Fail("Library had no url!")
                       /\ UNCHANGED <<fabric_loader_artifact, library_files>>
               ELSE /\ fabric_loader_artifact' =
                          IF Matches(name.val, FabricLoaderPattern)
                          THEN Some(name.val) ELSE fabric_loader_artifact
                    /\ library_files' = Append(library_files,
                          [name |-> name.val, url |-> url.val, st |-> "spawned",
                           joined |-> FALSE])
                    /\ UNCHANGED <<pc, result, install_path_result, dropped>>
    /\ Begin("DownloadLibraries")
    /\ UNCHANGED <<entry, loader_type, install_server, remoteHasMain, disk, launch_json,
                   main_class, launch_main_class, notified, downloaded_library_files,
                   processes, created, removed, writers, disk0>>

(***************************************************************************)
(* download_library, lines 241-252, run by a spawned task on a worker      *)
(* thread of the runtime (#[tokio::main], src/src/main.rs line 10).        *)
(***************************************************************************)
SetSt(i, st) == [library_files EXCEPT ![i].st = st]

\* Lines 246-248: the task's first poll.  split_artifact panics on a
\* coordinate with fewer than three segments, which ends the task.
TaskRun(i) ==
    /\ library_files[i].st = "spawned"
    /\ ~dropped
    /\ IF split_artifact(library_files[i].name) = Panic
       THEN /\ library_files' = SetSt(i, "panicked")
            /\ notified' = Append(notified, i)
       ELSE /\ library_files' = SetSt(i, "running")
            /\ UNCHANGED notified
    /\ UNCHANGED <<pc, entry, loader_type, install_server, remoteHasMain, disk,
                   launch_json, main_class, launch_main_class, fabric_loader_artifact,
                   dropped, downloaded_library_files, install_path_result, result, processes, steps,
                   created, removed, writers, disk0>>

\* Lines 249-251: download_file ends.  A task that the runtime is polling
\* when the JoinSet is dropped still ends its poll.
TaskDownload(i) ==
    /\ library_files[i].st = "running"
    /\ \E outcome \in DownloadOutcomes :
       \E hasMain \in IF outcome = "ok" THEN Observed(remoteHasMain) ELSE {TRUE} :
          LET file == LibraryFile(library_files[i].name)
              raw_url == library_files[i].url \o split_artifact(library_files[i].name)
          IN /\ disk' = download_file(disk, raw_url, file, hasMain, outcome)
             /\ remoteHasMain' = IF outcome = "ok" THEN Some(hasMain) ELSE remoteHasMain
             /\ created' = created \cup (IF outcome = "err" THEN {}
                                          ELSE (Parents(file) \ DOMAIN disk) \cup {file})
             /\ writers' = writers \cup (IF outcome = "err" THEN {} ELSE {<<file, i>>})
             /\ library_files' = SetSt(i, IF outcome = "ok" THEN "ok" ELSE "err")
    /\ notified' = Append(notified, i)
    /\ UNCHANGED <<pc, entry, loader_type, install_server,
                   launch_json, main_class, launch_main_class, fabric_loader_artifact,
                   dropped, downloaded_library_files, install_path_result, result, processes, steps, removed, disk0>>

\* Line 249: download_file never completes; the task stays at its await
\* ("hung") and the JoinSet is never notified of it.
TaskHang(i) ==
    /\ library_files[i].st = "running"
    /\ ~dropped
    /\ library_files' = SetSt(i, "hung")
    /\ UNCHANGED <<pc, entry, loader_type, install_server, remoteHasMain, disk,
                   launch_json, main_class, launch_main_class, fabric_loader_artifact,
                   notified, dropped, downloaded_library_files, install_path_result, result, processes,
                   steps, created, removed, writers, disk0>>

\* The drop of the JoinSet aborts a task that has not ended: one that never
\* ran is dropped ("aborted"), one in flight is cancelled at its next await.
TaskAbort(i) ==
    /\ dropped
    /\ library_files[i].st \in {"spawned", "running", "hung"}
    /\ library_files' = SetSt(i, IF library_files[i].st = "spawned"
                                  THEN "aborted" ELSE "cancelled")
    /\ UNCHANGED <<pc, entry, loader_type, install_server, remoteHasMain, disk,
                   launch_json, main_class, launch_main_class, fabric_loader_artifact,
                   notified, dropped, downloaded_library_files, install_path_result, result, processes,
                   steps, created, removed, writers, disk0>>

(***************************************************************************)
(* install_path, lines 126-145: join_next, in the order the tasks ended.   *)
(***************************************************************************)
\* Lines 128-142: what the loop does with the task join_next yields.
join_result_ignores_errors(st) == "push"

join_result_ignores_panics(st) ==
    IF st = "err" THEN "return Err" ELSE "push"

join_result(st) ==
    IF st = "ok" THEN "push" ELSE "return Err"

\* join_next yields None: the JoinSet holds no task any more.
join_set_is_empty_when_idle(tasks) == TRUE

join_set_is_empty_of_ended_tasks(tasks) ==
    \A i \in 1..Len(tasks) : tasks[i].joined \/ tasks[i].st = "hung"

join_set_is_empty(tasks) ==
    \A i \in 1..Len(tasks) : tasks[i].joined

next_after_join_skips_target_dir(artifact) ==
    IF artifact.some THEN "ReadFabricMainClass" ELSE "SynthesizeArchive"

\* Lines 147-152: where install_path goes on once the loop has ended.
next_after_join(artifact) ==
    IF artifact.some THEN "ReadFabricMainClass" ELSE "EnsureTargetDir"

JoinNext ==
    /\ pc = "JoinLibraries"
    /\ IF notified # <<>>
       THEN LET i == Head(notified) IN
            /\ notified' = Tail(notified)
            /\ library_files' = [library_files EXCEPT ![i].joined = TRUE]
            /\ IF join_result(library_files[i].st) = "push"
               THEN /\ downloaded_library_files' =
                          Append(downloaded_library_files, LibraryFile(library_files[i].name))
                    /\ UNCHANGED <<pc, result, install_path_result, dropped>>
               ELSE /\ Fail("Failed to download libraries")
                    /\ UNCHANGED downloaded_library_files
       ELSE /\ join_set_is_empty(library_files)
            /\ pc' = next_after_join(fabric_loader_artifact)
            /\ UNCHANGED <<notified, downloaded_library_files, library_files, result, install_path_result, dropped>>
    /\ UNCHANGED <<entry, loader_type, install_server, remoteHasMain, disk, launch_json,
                   main_class, launch_main_class, fabric_loader_artifact,
                   processes, steps, created, removed, writers, disk0>>

(***************************************************************************)
(* read_jar_main_class, lines 220-239, on the file system d.               *)
(***************************************************************************)
\* split("\n").find(|line| line.starts_with("Main-Class: ")): a manifest is
\* kept as its lines, each line as <<key, value>> for the text "key: value".
RECURSIVE find_main_class_line(_)
find_main_class_line(lines) ==
    IF lines = <<>> THEN None
    ELSE IF Head(lines)[1] = "Main-Class" THEN Some(Head(lines))
    ELSE find_main_class_line(Tail(lines))

read_jar_main_class(d, jar_file) ==
    IF ~Exists(d, jar_file) \/ d[jar_file].kind # "jar"
    THEN [ok |-> FALSE, err |-> "io error"]
    ELSE LET main_class_line == find_main_class_line(d[jar_file].manifest) IN
         IF main_class_line.some
         THEN [ok |-> TRUE, val |-> main_class_line.val[2]]
         ELSE [ok |-> FALSE,
               err |-> "Couldn't find 'Main-Class' attribute in fabric loader's jar manifest!"]

(***************************************************************************)
(* install_path, lines 147-150.                                            *)
(***************************************************************************)
ReadFabricMainClass ==
    /\ pc = "ReadFabricMainClass"
    /\ LET lib == LibraryFile(fabric_loader_artifact.val)
           read == read_jar_main_class(disk, lib)
       IN IF read.ok
          THEN /\ launch_main_class' = read.val
               /\ pc' = "EnsureTargetDir"
               /\ UNCHANGED <<result, install_path_result, dropped>>
          ELSE Fail(read.err) /\ UNCHANGED launch_main_class
    /\ Begin("ReadFabricMainClassIfNeeded")
    /\ UNCHANGED <<entry, loader_type, install_server, remoteHasMain, disk, launch_json,
                   main_class, fabric_loader_artifact, library_files, notified,
                   downloaded_library_files, processes, created, removed, writers, disk0>>

(***************************************************************************)
(* install_path, lines 152-154.                                            *)
(***************************************************************************)
EnsureTargetDir ==
    /\ pc = "EnsureTargetDir"
    /\ IF Exists(disk, Location)
       THEN /\ pc' = "SynthesizeArchive"
            /\ UNCHANGED <<disk, created, result, install_path_result, dropped>>
       ELSE \/ /\ disk' = CreateDirAll(disk, Location)
               /\ created' = created \cup (DOMAIN disk' \ DOMAIN disk)
               /\ pc' = "SynthesizeArchive"
               /\ UNCHANGED <<result, install_path_result, dropped>>
            \/ Fail("io error") /\ UNCHANGED <<disk, created>>
    /\ Begin("EnsureTargetDir")
    /\ UNCHANGED <<entry, loader_type, install_server, remoteHasMain, launch_json,
                   main_class, launch_main_class, fabric_loader_artifact, library_files,
                   notified, downloaded_library_files, processes, removed, writers, disk0>>

\* The end of install_path with Ok(()), line 173: install returns it,
\* install_and_run goes on to launch (line 280).
ReturnOk ==
    /\ dropped' = TRUE
    /\ install_path_result' = "Ok"
    /\ IF entry = "install"
       THEN pc' = "Returned" /\ result' = "Ok"
       ELSE pc' = "Launch" /\ UNCHANGED result

(***************************************************************************)
(* create_launch_jar, lines 176-218, called at lines 156-163.              *)
(***************************************************************************)
\* Lines 197-203: the Class-Path text before trim_end.
RECURSIVE class_path(_)
class_path(files) ==
    IF files = <<>> THEN <<>>
    ELSE Replace(strip_prefix(Head(files), Location), "\\", "/") \o <<" ">>
            \o class_path(Tail(files))

LauncherArchive_without_properties(loader, main, launch_main, files) ==
    Jar(<<ManifestVersionLine,
          <<"Main-Class", launch_main>>,
          <<"Class-Path", trim_end(class_path(files))>>>>,
        None)

\* Lines 194-213: the archive's entries.
LauncherArchive(loader, main, launch_main, files) ==
    Jar(<<ManifestVersionLine,
          <<"Main-Class", launch_main>>,
          <<"Class-Path", trim_end(class_path(files))>>>>,
        IF loader = "Fabric" THEN Some(<<"launch.mainClass", main>>) ELSE None)

\* The outcomes: remove_file fails (line 185); File::create fails (line
\* 188); a later step fails, an I/O error or strip_prefix at line 199,
\* leaving an incomplete file; zip.finish() succeeds.
next_after_archive_always_server_jar(server) == "DownloadServerJar"

\* Line 165: what follows create_launch_jar.
next_after_archive(server) ==
    IF server THEN "DownloadServerJar" ELSE "Ok"

create_launch_jar ==
    /\ pc = "SynthesizeArchive"
    /\ LET jar_out == LaunchJar(loader_type)
           stripFails == \E k \in 1..Len(downloaded_library_files) :
                            strip_prefix(downloaded_library_files[k], Location)
                                = StripPrefixError
       IN \E outcome \in {"remove fails", "create fails", "write fails", "ok"} :
             /\ outcome = "remove fails" => Exists(disk, jar_out)
             /\ outcome = "ok" => ~stripFails
             /\ disk' = CASE outcome = "remove fails" -> disk
                          [] outcome = "create fails" -> RemoveAll(disk, {jar_out})
                          [] outcome = "write fails" -> WriteFile(disk, jar_out, Partial)
                          [] outcome = "ok" ->
                               WriteFile(disk, jar_out,
                                   LauncherArchive(loader_type, main_class,
                                       launch_main_class, downloaded_library_files))
             /\ created' = created \cup
                   (IF outcome \in {"write fails", "ok"} THEN {jar_out} ELSE {})
             /\ removed' = removed \cup
                   (IF outcome # "remove fails" /\ Exists(disk, jar_out)
                    THEN {jar_out} ELSE {})
             /\ IF outcome # "ok"
                THEN Fail("io error")
                ELSE IF next_after_archive(install_server) = "DownloadServerJar"
                THEN pc' = "DownloadServerJar" /\ UNCHANGED <<result, install_path_result, dropped>>
                ELSE ReturnOk
    /\ Begin("SynthesizeArchive")
    /\ UNCHANGED <<entry, loader_type, install_server, remoteHasMain, launch_json,
                   main_class, launch_main_class, fabric_loader_artifact, library_files,
                   notified, downloaded_library_files, processes, writers, disk0>>

(***************************************************************************)
(* install_path, lines 165-173.                                            *)
(***************************************************************************)
\* The URL get_jar_download_url yields for the version's server jar.
ServerJarUrl == <<"s","e","r","v","e","r","-","u","r","l">>

DownloadServerJar ==
    /\ pc = "DownloadServerJar"
    /\ \/ Fail("version manifest error") /\ UNCHANGED <<disk, created>>
       \/ \E outcome \in DownloadOutcomes :
             LET file == PathJoin(Location, ServerJarName) IN
             /\ disk' = download_file(disk, ServerJarUrl, file, TRUE, outcome)
             /\ created' = created \cup (IF outcome = "err" THEN {} ELSE {file})
             /\ IF outcome = "ok" THEN ReturnOk ELSE Fail("download failed")
    /\ Begin("DownloadServerJar")
    /\ UNCHANGED <<entry, loader_type, install_server, remoteHasMain, launch_json,
                   main_class, launch_main_class, fabric_loader_artifact, library_files,
                   notified, downloaded_library_files, processes, removed, writers, disk0>>

(***************************************************************************)
(* install_and_run, lines 280-292.                                         *)
(***************************************************************************)
\* The java argument: None, or Some(path).
JavaArgs == {None, Some("/opt/jdk/bin/java")}

\* The args argument.
ExtraArgs == <<"-Xmx2G">>

\* Path::canonicalize, with the working directory "/".
canonicalize(p) == <<"/">> \o p

Launch ==
    /\ pc = "Launch"
    /\ \E java \in JavaArgs :
          LET launch_jar == LaunchJar(loader_type)
              java_binary == IF java.some THEN java.val ELSE "java"
          IN \/ /\ Exists(disk, launch_jar)
                /\ processes' = Append(processes,
                      [program |-> java_binary,
                       args |-> ExtraArgs \o <<"-jar">>,
                       jar |-> canonicalize(launch_jar),
                       tail |-> <<"nogui">>,
                       running |-> TRUE])
                /\ result' = "Ok"
             \/ /\ result' = "io error"
                /\ UNCHANGED processes
    /\ pc' = "Returned"
    /\ UNCHANGED <<entry, loader_type, install_server, remoteHasMain, disk, launch_json,
                   main_class, launch_main_class, fabric_loader_artifact, library_files,
                   notified, dropped, downloaded_library_files, install_path_result, steps, created,
                   removed, writers, disk0>>

\* The child process ends on its own; nothing in the code waits for it.
ProcessExit(k) ==
    /\ processes[k].running
    /\ processes' = [processes EXCEPT ![k].running = FALSE]
    /\ UNCHANGED <<pc, entry, loader_type, install_server, remoteHasMain, disk,
                   launch_json, main_class, launch_main_class, fabric_loader_artifact,
                   library_files, notified, dropped, downloaded_library_files, install_path_result, result,
                   steps, created, removed, writers, disk0>>

Next ==
    \/ install
    \/ install_and_run
    \/ CleanStale
    \/ FetchManifest
    \/ ResolveMainClass
    \/ SpawnLibrary
    \/ \E i \in 1..Len(library_files) : TaskRun(i)
    \/ \E i \in 1..Len(library_files) : TaskDownload(i)
    \/ \E i \in 1..Len(library_files) : TaskHang(i)
    \/ \E i \in 1..Len(library_files) : TaskAbort(i)
    \/ JoinNext
    \/ ReadFabricMainClass
    \/ EnsureTargetDir
    \/ create_launch_jar
    \/ DownloadServerJar
    \/ Launch
    \/ \E k \in 1..Len(processes) : ProcessExit(k)

Spec == Init /\ [][Next]_vars

(***************************************************************************)
(* The library loop and the download tasks (lines 109-143, 241-261) for    *)
(* every coordinate string over a small alphabet: the install of a Quilt   *)
(* manifest with one library, from the state ResolveMainClass leaves.      *)
(***************************************************************************)
\* Longest coordinate string.
MaxCoordLen == 7

CoordAlphabet == {"a", ".", ":"}

Coordinates == UNION {[1..n -> CoordAlphabet] : n \in 0..MaxCoordLen}

CoordInit ==
    /\ pc = "DownloadLibraries"
    /\ entry = "install"
    /\ loader_type = "Quilt"
    /\ install_server = FALSE
    /\ remoteHasMain = None
    /\ disk = EmptyDisk
    /\ \E c \in Coordinates :
          launch_json = [type |-> "object",
                         mainClass |-> JNull,
                         launcherMainClass |-> JStr(QuiltLauncher),
                         libraries |-> JArr(<<[type |-> "object", name |-> JStr(c),
                                               url |-> JStr(MavenUrl)]>>)]
    /\ main_class = ""
    /\ launch_main_class = QuiltLauncher
    /\ fabric_loader_artifact = None
    /\ library_files = <<>>
    /\ notified = <<>>
    /\ dropped = FALSE
    /\ downloaded_library_files = <<>>
    /\ install_path_result = Pending
    /\ result = Pending
    /\ processes = <<>>
    /\ steps = <<"CleanStale", "FetchManifest", "ResolveMainClass">>
    /\ created = {}
    /\ removed = {}
    /\ writers = {}
    /\ disk0 = disk

CoordNext ==
    \/ SpawnLibrary
    \/ \E i \in 1..Len(library_files) : TaskRun(i)
    \/ \E i \in 1..Len(library_files) : TaskDownload(i)
    \/ JoinNext

CoordSpec == CoordInit /\ [][CoordNext]_vars

(***************************************************************************)
(* Properties.                                                             *)
(***************************************************************************)
Tasks == 1..Len(library_files)

Returned == pc = "Returned"

\* A download task has failed: download_file returned an error, or the
\* task panicked.
Failed(i) == library_files[i].st \in {"err", "panicked"}

\* The launcher archive is as it was when the entry point was called:
\* absent as then, or present with the same content, and never touched.
ArchiveAsAtCall ==
    LET jar == LaunchJar(loader_type) IN
    /\ jar \notin created \cup removed
    /\ Exists(disk, jar) <=> Exists(disk0, jar)
    /\ Exists(disk, jar) => disk[jar] = disk0[jar]

\* The archive this invocation has written completely.
ArchiveWritten ==
    /\ LaunchJar(loader_type) \in created
    /\ disk[LaunchJar(loader_type)].kind = "jar"

\* The value of a line of the archive's manifest.
RECURSIVE LineValue(_, _)
LineValue(lines, key) ==
    IF lines = <<>> THEN None
    ELSE IF Head(lines)[1] = key THEN Some(Head(lines)[2])
    ELSE LineValue(Tail(lines), key)

ArchiveLine(key) == LineValue(disk[LaunchJar(loader_type)].manifest, key).val

\* C1: if a library download task has failed, the launcher archive is
\* neither created nor modified: at every moment of the invocation, and so
\* when it returns, the archive is absent as at the call or present with
\* the content it had at the call, whatever the order the tasks ended in.
C1_FailedDownloadLeavesArchive ==
    (\E i \in Tasks : Failed(i)) => ArchiveAsAtCall

\* C1's case: install has returned after a failed download, a sibling
\* download had succeeded, and the archive of an earlier run is in place.
C1_Witness ==
    /\ Returned
    /\ entry = "install"
    /\ \E i, j \in Tasks : Failed(i) /\ library_files[j].st = "ok"
    /\ Exists(disk0, LaunchJar(loader_type))
    /\ disk[LaunchJar(loader_type)] = OldArchive

\* str::split on a one-character separator.
RECURSIVE Split(_, _)
Split(s, c) ==
    IF IndexOf(s, c) = 0 THEN <<s>>
    ELSE <<SubSeq(s, 1, IndexOf(s, c) - 1)>> \o Split(SubSeq(s, IndexOf(s, c) + 1, Len(s)), c)

\* The entries of a Class-Path line.
ClassPathEntries(line) == IF line = <<>> THEN <<>> ELSE Split(line, " ")

\* The Class-Path entry of a library: its path below the target directory,
\* with forward slashes.
ExpectedEntry(name) ==
    LibrariesName \o <<"/">> \o Replace(split_artifact(name), "\\", "/")

\* How often x occurs in the sequence q.
Count(q, x) == Cardinality({k \in 1..Len(q) : q[k] = x})

\* C2: archive synthesis starts only after every task spawned for the
\* manifest (one per library) has ended successfully and has been joined,
\* and the Class-Path written lists exactly the libraries of the manifest:
\* one entry per library, none missing and none extra.
C2_ArchiveFromAllLibraries ==
    /\ (pc = "SynthesizeArchive" \/ LaunchJar(loader_type) \in created) =>
          /\ Len(library_files) = Len(libraries)
          /\ \A i \in Tasks : library_files[i].st = "ok" /\ library_files[i].joined
    /\ ArchiveWritten =>
          LET entries == ClassPathEntries(ArchiveLine("Class-Path"))
              expected == [i \in 1..Len(libraries) |-> ExpectedEntry(library_files[i].name)]
          IN /\ Len(entries) = Len(expected)
             /\ \A i \in 1..Len(expected) :
                   Count(entries, expected[i]) = Count(expected, expected[i])

\* C2's case: an archive written from two libraries whose downloads ended
\* in the opposite order of the manifest.
C2_Witness ==
    /\ ArchiveWritten
    /\ Len(library_files) = 2
    /\ library_files[1].name # library_files[2].name
    /\ downloaded_library_files[1] = LibraryFile(library_files[2].name)
    /\ Len(ClassPathEntries(ArchiveLine("Class-Path"))) = 2

\* install_path has returned Ok(()).
InstallSucceeded == install_path_result = "Ok"

\* "net.fabricmc:fabric-loader:": what the coordinate of a Fabric loader
\* starts with.
FabricLoaderPrefix == <<"n","e","t",".","f","a","b","r","i","c","m","c",":","f","a","b","r","i","c","-","l","o","a","d","e","r",":">>

IsFabricLoader(name) == StartsWith(name, FabricLoaderPrefix)

\* C3: after a Fabric install that succeeded, the archive's Main-Class is
\* the Main-Class of the downloaded Fabric loader jar's own manifest, and
\* its fabric-server-launch.properties holds launch.mainClass=<the
\* document's mainClass>.
C3_FabricMainClassFromLoaderJar ==
    (loader_type = "Fabric" /\ InstallSucceeded) =>
        /\ \A i \in Tasks :
              LET read == read_jar_main_class(disk, LibraryFile(library_files[i].name))
              IN (IsFabricLoader(library_files[i].name) /\ read.ok)
                    => ArchiveLine("Main-Class") = read.val
        /\ disk[LaunchJar(loader_type)].properties =
              Some(<<"launch.mainClass", as_str(Get(launch_json, "mainClass")).val>>)

\* C4: after a Quilt install that succeeded, whatever the libraries, the
\* archive's Main-Class is the document's launcherMainClass, the jar
\* manifest reader has not run, and the archive holds no properties entry.
C4_QuiltMainClassVerbatim ==
    (loader_type = "Quilt" /\ InstallSucceeded) =>
        /\ ArchiveLine("Main-Class") = as_str(Get(launch_json, "launcherMainClass")).val
        /\ \A k \in 1..Len(steps) : steps[k] # "ReadFabricMainClassIfNeeded"
        /\ disk[LaunchJar(loader_type)].properties = None

\* C5: when install has returned the error of a library entry without a
\* name or a url, no download task of the manifest has begun to run, and
\* none has written a file.
C5_ShapeErrorBeforeAnyDownload ==
    (Returned /\ install_path_result \in {"Library had no name!", "Library had no url!"}) =>
        /\ \A i \in Tasks : library_files[i].st \in {"spawned", "aborted"}
        /\ writers = {}

\* The document lacks the main-class field its loader type requires.
LacksMainClass ==
    /\ is_object(launch_json)
    /\ \/ loader_type = "Quilt" /\ ~as_str(Get(launch_json, "launcherMainClass")).some
       \/ loader_type = "Fabric" /\ ~as_str(Get(launch_json, "mainClass")).some

\* C6: if the fetched document lacks the main-class field of the loader
\* type (launcherMainClass for Quilt, mainClass for Fabric), no download
\* task is ever spawned and the archive is never touched, and install
\* returns 'Could not find main class entry'.
C6_MissingMainClassFailsFirst ==
    LacksMainClass =>
        /\ library_files = <<>>
        /\ writers = {}
        /\ ArchiveAsAtCall
        /\ pc \in {"ResolveMainClass", "Returned"}
        /\ Returned => /\ install_path_result = "Could not find main class entry"
                       /\ result = install_path_result

\* C6's case: a Quilt install has returned the error for a document that
\* holds mainClass, libraries and no launcherMainClass.
C6_Witness ==
    /\ LacksMainClass
    /\ Returned
    /\ loader_type = "Quilt"
    /\ as_str(Get(launch_json, "mainClass")).some
    /\ as_array(Get(launch_json, "libraries")).some
    /\ Len(Get(launch_json, "libraries").a) > 0
    /\ result = "Could not find main class entry"

\* C7: if the fetched document is a JSON array, install returns the
\* manifest-shape error at once: no task is spawned, and nothing is
\* created or written on the file system (the paths that exist are among
\* those that existed at the call, with their content).
C7_NonObjectFailsAtOnce ==
    launch_json.type = "array" =>
        /\ Returned
        /\ install_path_result = WrongTypeError
        /\ result = WrongTypeError
        /\ library_files = <<>>
        /\ created = {}
        /\ \A q \in DOMAIN disk : q \in DOMAIN disk0 /\ disk[q] = disk0[q]
        /\ steps = <<"CleanStale", "FetchManifest">>

\* C7's case: install into a directory that does not exist has returned
\* the error for an array, and the directory still does not exist.
C7_Witness ==
    /\ launch_json.type = "array"
    /\ Returned
    /\ result = WrongTypeError
    /\ ~Exists(disk0, Location)
    /\ ~Exists(disk, Location)

\* The command line install_and_run is to spawn.
IsLaunchCommand(p) ==
    /\ p.program \in {"java", "/opt/jdk/bin/java"}
    /\ p.args = ExtraArgs \o <<"-jar">>
    /\ p.jar = <<"/">> \o Location \o <<"/">> \o get_name(loader_type) \o ServerLaunchSuffix
    /\ p.tail = <<"nogui">>

StepOrder ==
    <<"CleanStale", "FetchManifest", "ResolveMainClass", "DownloadLibraries",
      "ReadFabricMainClassIfNeeded", "EnsureTargetDir", "SynthesizeArchive",
      "DownloadServerJar">>

Rank(step) == CHOOSE k \in 1..Len(StepOrder) : StepOrder[k] = step

\* Step t may come directly after step s: it is the next one, or the one
\* after a ReadFabricMainClassIfNeeded that was not needed.
MayFollow(s, t) ==
    \/ Rank(t) = Rank(s) + 1
    \/ s = "DownloadLibraries" /\ t = "EnsureTargetDir"

InstallFailed == install_path_result \notin {Pending, "Ok"}

StepsInOrder ==
    /\ steps # <<>> => steps[1] = "CleanStale"
    /\ \A k \in 1..(Len(steps) - 1) : MayFollow(steps[k], steps[k + 1])
    /\ \A k \in 1..Len(steps) : \E r \in 1..Len(StepOrder) : StepOrder[r] = steps[k]
    /\ InstallSucceeded =>
          steps[Len(steps)] = IF install_server THEN "DownloadServerJar"
                              ELSE "SynthesizeArchive"
    /\ InstallFailed => Returned /\ result = install_path_result
    /\ (\E i \in Tasks : library_files[i].joined /\ Failed(i)) =>
          /\ InstallFailed
          /\ steps[Len(steps)] = "DownloadLibraries"

\* C9: the steps of every install begin in the order CleanStale,
\* FetchManifest, ResolveMainClass, DownloadLibraries,
\* ReadFabricMainClassIfNeeded (when needed), EnsureTargetDir,
\* SynthesizeArchive, DownloadServerJar (when requested): each step of the
\* program extends the history by at most one step, which follows the last
\* one in that order (so none is entered again); install_path returns Ok
\* only from the last step; and once install_path has failed no step begins.
C9_StepsInOrder ==
    [][/\ StepsInOrder'
       /\ steps' = steps \/ \E t \in 1..Len(StepOrder) : steps' = Append(steps, StepOrder[t])
       /\ InstallFailed => steps' = steps /\ install_path_result' = install_path_result
       /\ InstallSucceeded => steps' = steps]_vars

\* C9's case: an install has gone through every step, the optional ones
\* included, and returned Ok.
C9_Witness ==
    /\ Returned
    /\ result = "Ok"
    /\ steps = StepOrder

\* C10 as stated: for every manifest, two download tasks that run at the
\* same time write to different destination paths.
C10_DisjointDestinations ==
    \A i, j \in Tasks :
        (i # j /\ library_files[i].st = "running" /\ library_files[j].st = "running")
            => LibraryFile(library_files[i].name) # LibraryFile(library_files[j].name)

\* C10 as amended: every task writes one file only, and two tasks that
\* write the same file stand for the same coordinate, listed twice in the
\* manifest: tasks of different coordinates never write the same file.
C10_DistinctCoordinatesDistinctFiles ==
    \A w1, w2 \in writers :
        /\ w1[2] = w2[2] => w1[1] = w2[1]
        /\ (w1[2] # w2[2] /\ w1[1] = w2[1])
              => library_files[w1[2]].name = library_files[w2[2]].name

\* C10's case: two tasks of different coordinates have both written their
\* file, the second one of the manifest first.
C10_Witness ==
    /\ Len(library_files) = 2
    /\ library_files[1].name # library_files[2].name
    /\ \E w1, w2 \in writers : w1[2] = 1 /\ w2[2] = 2
    /\ notified = <<2, 1>>

\* A download that never completes.
Hung(i) == library_files[i].st = "hung"

ShapeErrors == {"Library had no name!", "Library had no url!"}

\* C11 as stated: while a download of the install hangs, the install has
\* not returned, neither with success nor with an error, whatever the other
\* downloads do.
C11_HangBlocksInstall ==
    (\E i \in Tasks : Hung(i)) => install_path_result = Pending /\ result = Pending

\* C11 as amended: while a download hangs, install_path never returns Ok
\* and never leaves the spawn loop and the join loop; it returns only with
\* an error, and only because join_next yielded a sibling task that failed
\* or because a later entry of the manifest lacks its name or url.  With
\* every sibling joined successfully it stays blocked in join_next.
C11_HangBlocksUnlessSiblingFails ==
    (\E i \in Tasks : Hung(i)) =>
        /\ ~InstallSucceeded /\ result # "Ok"
        /\ pc \in {"DownloadLibraries", "JoinLibraries", "Returned"}
        /\ LaunchJar(loader_type) \notin created
        /\ Returned =>
              /\ install_path_result \in ShapeErrors \cup {"Failed to download libraries"}
              /\ result = install_path_result
              /\ install_path_result = "Failed to download libraries"
                    => \E j \in Tasks : Failed(j) /\ library_files[j].joined
        /\ (pc = "JoinLibraries" /\ notified = <<>>) => ~join_set_is_empty(library_files)

\* C11's case: one download hangs, its sibling has ended successfully and
\* has been joined; join_next has nothing to yield and the install waits.
C11_Witness ==
    /\ Len(library_files) = 2
    /\ Hung(1)
    /\ library_files[2].st = "ok" /\ library_files[2].joined
    /\ pc = "JoinLibraries"
    /\ notified = <<>>
    /\ result = Pending

\* location.join("libraries"), line 122
LibrariesDir == PathJoin(Location, LibrariesName)

\* install_path returned at lines 132-140.
DownloadAborted == install_path_result = "Failed to download libraries"

\* What a download that succeeded has written for task j.
Downloaded(j) ==
    RemoteJar(library_files[j].url \o split_artifact(library_files[j].name),
              remoteHasMain.val)

\* C12 as stated: the first failed download join_next yields makes install
\* return 'Failed to download libraries' (and nothing else does), nothing
\* under libraries/ is removed, and the file of every sibling download that
\* succeeded is on disk with the content that download wrote.
C12_NoRollbackFilesUnchanged ==
    /\ (\E j \in Tasks : Failed(j) /\ library_files[j].joined) <=> DownloadAborted
    /\ DownloadAborted =>
          /\ Returned /\ result = install_path_result
          /\ Cardinality({j \in Tasks : Failed(j) /\ library_files[j].joined}) = 1
          /\ \A q \in removed : ~Under(q, LibrariesDir)
          /\ \A j \in Tasks : library_files[j].st = "ok" =>
                /\ Exists(disk, LibraryFile(library_files[j].name))
                /\ disk[LibraryFile(library_files[j].name)] = Downloaded(j)

\* C12 as amended: as above, but the file of a sibling download that
\* succeeded keeps its content only when no other task of the install has
\* the same destination, as the task of a coordinate listed twice has;
\* install itself removes nothing under libraries/, so the file exists in
\* every case.
C12_NoRollbackExceptDuplicates ==
    /\ (\E j \in Tasks : Failed(j) /\ library_files[j].joined) <=> DownloadAborted
    /\ DownloadAborted =>
          /\ Returned /\ result = install_path_result
          /\ Cardinality({j \in Tasks : Failed(j) /\ library_files[j].joined}) = 1
          /\ \A q \in removed : ~Under(q, LibrariesDir)
          /\ \A j \in Tasks : library_files[j].st = "ok" =>
                /\ Exists(disk, LibraryFile(library_files[j].name))
                /\ (\A k \in Tasks \ {j} :
                        LibraryFile(library_files[k].name) # LibraryFile(library_files[j].name))
                      => disk[LibraryFile(library_files[j].name)] = Downloaded(j)

\* C12's case: a download has succeeded and written its file, its sibling
\* has failed and was joined first; install has returned the error and the
\* file of the download that succeeded is in place.
C12_Witness ==
    /\ DownloadAborted /\ Returned
    /\ Len(library_files) = 2
    /\ library_files[1].st = "ok" /\ ~library_files[1].joined
    /\ Failed(2) /\ library_files[2].joined
    /\ disk[LibraryFile(library_files[1].name)].kind = "jar"

\* <target>/.fabric and <target>/.quilt
StaleDirs == {PathJoin(Location, DotFabric), PathJoin(Location, DotQuilt)}

\* Nothing exists at path p or below it.
Gone(p) == \A q \in DOMAIN disk : ~Under(q, p)

\* The install has left its cleanup step behind.
PassedCleanup == Len(steps) >= 2 \/ pc = "FetchManifest"

\* The install has ended in its cleanup step.
FailedInCleanup == Returned /\ steps = <<"CleanStale">>

C14_FailedInstallLeavesNoArchive ==
    InstallFailed => LaunchJar(loader_type) \notin created

\* location.join("server.jar"), line 170
ServerJar == PathJoin(Location, ServerJarName)

\* C15: install returns Ok only after install_path returned Ok, and then
\* one task per library of the manifest has been spawned, has ended
\* successfully and has been joined, with its file on disk as a complete
\* jar; the launcher archive has been written completely by this
\* invocation, with the Manifest-Version, Main-Class and Class-Path lines
\* and, for Fabric and for Fabric only, the properties entry; and when the
\* server jar was requested, server.jar has been downloaded completely.
C15_OkOnlyAfterFullSuccess ==
    /\ (entry = "install" /\ result = "Ok") => InstallSucceeded
    /\ InstallSucceeded =>
          /\ Len(library_files) = Len(libraries)
          /\ Len(downloaded_library_files) = Len(libraries)
          /\ \A i \in Tasks :
                /\ library_files[i].st = "ok" /\ library_files[i].joined
                /\ Exists(disk, LibraryFile(library_files[i].name))
                /\ disk[LibraryFile(library_files[i].name)] = Downloaded(i)
          /\ ArchiveWritten
          /\ disk[LaunchJar(loader_type)].manifest[1] = ManifestVersionLine
          /\ LineValue(disk[LaunchJar(loader_type)].manifest, "Main-Class")
                = Some(launch_main_class)
          /\ LineValue(disk[LaunchJar(loader_type)].manifest, "Class-Path").some
          /\ disk[LaunchJar(loader_type)].properties =
                IF loader_type = "Fabric"
                THEN Some(<<"launch.mainClass", main_class>>) ELSE None
          /\ install_server =>
                /\ Exists(disk, ServerJar)
                /\ disk[ServerJar] = RemoteJar(ServerJarUrl, TRUE)
                /\ ServerJar \in created

\* C15's case: a Fabric install with two libraries and the server jar
\* requested has returned Ok.
C15_Witness ==
    /\ entry = "install" /\ result = "Ok" /\ Returned
    /\ loader_type = "Fabric"
    /\ install_server
    /\ Len(library_files) = 2
    /\ library_files[1].name # library_files[2].name
    /\ Exists(disk, ServerJar)

\* g-with-dots-replaced-by-slashes/a/v/a-v.jar for the segments <<g, a, v>>.
MavenPath(parts) ==
    Replace(parts[1], ".", "/") \o <<"/">> \o parts[2] \o <<"/">> \o parts[3]
        \o <<"/">> \o parts[2] \o <<"-">> \o parts[3] \o DotJar

\* "<location>/libraries/" followed by path.
UnderLibraries(path) == Location \o <<"/">> \o LibrariesName \o <<"/">> \o path

\* What a task does with a coordinate of fewer than three segments: it
\* panics before it has a path, writes nothing, and the join loop turns
\* the panic into the install's error.
NeverYieldsPath(i) ==
    /\ split_artifact(library_files[i].name) = Panic
    /\ library_files[i].st \in {"spawned", "panicked"}
    /\ \A w \in writers : w[2] # i
    /\ downloaded_library_files = <<>>
    /\ library_files[i].joined => DownloadAborted

ServerJarAsAtCall ==
    /\ ServerJar \notin created \cup removed
    /\ Exists(disk, ServerJar) <=> Exists(disk0, ServerJar)
    /\ Exists(disk, ServerJar) => disk[ServerJar] = disk0[ServerJar]

\* C17: the server jar step begins, and server.jar is written, only when
\* install_path was called with install_server = true and only after this
\* invocation has written the complete launcher archive; an install with
\* install_server = false leaves server.jar as it was; and every install
\* sequence install_and_run starts has install_server = true.
C17_ServerJarOnlyOnRequestAfterArchive ==
    /\ (pc = "DownloadServerJar" \/ ServerJar \in created
           \/ \E k \in 1..Len(steps) : steps[k] = "DownloadServerJar")
          => install_server /\ ArchiveWritten
    /\ ~install_server => ServerJarAsAtCall
    /\ (entry = "install_and_run" /\ steps # <<>>) => install_server
    /\ (InstallSucceeded /\ install_server) => ServerJar \in created

\* C17's case: an install with install_server = false into a target that
\* holds an old server.jar has succeeded, and the old server.jar is there.
C17_Witness ==
    /\ entry = "install" /\ ~install_server
    /\ InstallSucceeded /\ Returned
    /\ Exists(disk0, ServerJar)
    /\ disk[ServerJar] = OldServerJar

\* C18: in install_and_run, once the install sequence has failed the entry
\* point has returned that very error and no process has been spawned, at
\* whatever step it failed; a process exists only after install_path has
\* returned Ok or after the install was skipped because the archive was in
\* place at the call.
C18_NoLaunchAfterFailedInstall ==
    /\ (entry = "install_and_run" /\ InstallFailed) =>
          /\ Returned
          /\ result = install_path_result
          /\ processes = <<>>
          /\ ~Exists(disk0, LaunchJar(loader_type))
    /\ processes # <<>> =>
          /\ entry = "install_and_run"
          /\ \/ InstallSucceeded
             \/ /\ steps = <<>> /\ install_path_result = Pending
                /\ Exists(disk0, LaunchJar(loader_type))

\* C18's case: install_and_run found no archive, its install failed in the
\* last step with the archive already written, and it has returned the
\* error without a process.
C18_Witness ==
    /\ entry = "install_and_run"
    /\ ~Exists(disk0, LaunchJar(loader_type))
    /\ Returned /\ InstallFailed
    /\ steps[Len(steps)] = "DownloadServerJar"
    /\ ArchiveWritten
    /\ processes = <<>>

\* install_path has returned.
InstallReturned == install_path_result # Pending

\* C19 as stated: once install_path has returned, with Ok or with an
\* error, no download task of the invocation writes a file any more.
C19_NoWriteAfterReturn ==
    [][InstallReturned => writers' = writers /\ disk' = disk]_vars

\* C19 as amended: when install_path returns Ok every task has ended and
\* has been joined.  After a return no task is spawned, a task that has
\* not started never starts, a task suspended in a download that hangs is
\* never resumed, and a file is written only by a task that was in the
\* middle of its download when install_path returned: such a task may
\* still end and write its own file.
C19_OnlyTasksInFlightOutliveReturn ==
    [][/\ InstallSucceeded' =>
             \A i \in 1..Len(library_files') :
                 library_files'[i].st = "ok" /\ library_files'[i].joined
       /\ InstallReturned =>
             /\ Len(library_files') = Len(library_files)
             /\ \A i \in Tasks :
                   /\ library_files[i].st = "spawned"
                         => library_files'[i].st \in {"spawned", "aborted"}
                   /\ library_files[i].st = "hung"
                         => library_files'[i].st \in {"hung", "cancelled"}
                   /\ library_files[i].st \notin {"spawned", "running", "hung"}
                         => library_files'[i].st = library_files[i].st
             /\ writers' # writers =>
                   \E i \in Tasks :
                       /\ library_files[i].st = "running"
                       /\ writers' = writers \cup {<<LibraryFile(library_files[i].name), i>>}
             /\ disk' # disk => writers' # writers]_vars

\* C19's case: install has returned 'Failed to download libraries' after
\* the second task failed, and the first task, which was in its download,
\* has been cancelled without writing its file.
C19_Witness ==
    /\ Returned /\ DownloadAborted
    /\ Len(library_files) = 2
    /\ library_files[1].st = "cancelled"
    /\ Failed(2) /\ library_files[2].joined
    /\ \A w \in writers : w[2] # 1

====
